---- MODULE Spec2Model ----
(***************************************************************************)
(* Finite-field elements (src/field_element.rs), coordinates               *)
(* (src/coordinate.rs) and elliptic-curve points (src/point.rs).           *)
(*                                                                         *)
(* The functions of the crate are pure; the state of the model is the      *)
(* values a caller holds (a field element and a point), the locals of a   *)
(* running binary_expansion, the last call made and what it returned.  A  *)
(* call returns Ok(v), Err(e) (a                                           *)
(* Result::Err value) or Panic(k) (the thread unwinds and no value is      *)
(* produced).                                                              *)
(*                                                                         *)
(* Machine integers keep their width.  TLC's integers are 32-bit signed,   *)
(* so u32/i32 are modelled as WordBits-bit unsigned/two's-complement       *)
(* words: a product of two words overflows exactly when both factors can   *)
(* reach 2^(WordBits/2), as 65536 * 65536 does for u32.  An arithmetic     *)
(* overflow panics when overflow checks are on (the debug profile) and     *)
(* wraps when they are off (the release profile); `build` is the profile.  *)
(***************************************************************************)
EXTENDS Integers, Sequences, FiniteSets, TLC

VARIABLES build,   \* "debug" (overflow checks on) or "release" (wrapping)
          call,    \* the last call: its name and its arguments
          res,     \* what the last call returned: Ok / Err / Panic
          fe,      \* the caller's field element: [acc, nops]
          pt,      \* the caller's point: [acc, nops]
          mul      \* the frame of binary_expansion: its locals and its position

vars == <<build, call, res, fe, pt, mul>>

----------------------------------------------------------------------------
(* Bounds of the model *)

\* width of the modelled machine word (u32 / i32 in the source)
WordBits == 16
\* New draws number from 0..SmallMax and from the neighbourhood of prime
SmallMax == 3
\* field operations chained onto an element since it was constructed
MaxOps == 2
\* point additions chained onto a point since it was constructed
MaxAdds == 1
\* the coefficients 0..MaxCoef multiply every point the caller constructs
MaxCoef == 5

RECURSIVE Pow2(_)
Pow2(n) == IF n = 0 THEN 1 ELSE 2 * Pow2(n - 1)

\* number of values of the unsigned word; u32::MAX = UMod - 1
UMod == Pow2(WordBits)
\* i32::MAX = IMax - 1, i32::MIN = -IMax
IMax == Pow2(WordBits - 1)
\* the least modulus whose elements overflow a product: 2^(WordBits/2) + 1
\* (257 at 16 bits, 65537 at 32 bits; both are Fermat primes)
BigPrime == Pow2(WordBits \div 2) + 1

IsPrime(p) == p >= 2 /\ \A d \in 2..(p - 1) : p % d # 0

----------------------------------------------------------------------------
(* Results of a call *)

Ok(v) == [tag |-> "Ok", val |-> v]
Err(e) == [tag |-> "Err", err |-> e]
Panic(k) == [tag |-> "Panic", kind |-> k]
NoCall == [op |-> "none"]
NoRes == [tag |-> "None"]

IsOk(r) == r.tag = "Ok"
IsErr(r) == r.tag = "Err"
IsPanic(r) == r.tag = "Panic"

----------------------------------------------------------------------------
(* Machine arithmetic *)

\* an unsigned-word result: in range, or overflow (panic / wrap by profile)
CheckedU(v) ==
    IF v >= 0 /\ v < UMod THEN Ok(v)
    ELSE IF build = "debug" THEN Panic("overflow")
    ELSE Ok(v % UMod)

\* a signed-word result
CheckedI(v) ==
    IF v >= -IMax /\ v < IMax THEN Ok(v)
    ELSE IF build = "debug" THEN Panic("overflow")
    ELSE Ok(((v + IMax) % UMod) - IMax)

\* `x as i32` of an unsigned word: reinterpretation, never panics
AsI32(n) == IF n >= IMax THEN n - UMod ELSE n

\* `x as u32` of a signed word
AsU32(i) == i % UMod

Abs(i) == IF i < 0 THEN -i ELSE i

\* i32::rem_euclid: the non-negative remainder; panics on a zero divisor and
\* on MIN.rem_euclid(-1)
RemEuclidI32(a, m) ==
    IF m = 0 THEN Panic("remainder by zero")
    ELSE IF a = -IMax /\ m = -1 THEN Panic("overflow")
    ELSE Ok(a % Abs(m))

\* u32 `%` and u32::rem_euclid
RemU32(a, m) == IF m = 0 THEN Panic("remainder by zero") ELSE Ok(a % m)

----------------------------------------------------------------------------
(* FieldElement, src/field_element.rs *)

FieldElement(number, prime) == [number |-> number, prime |-> prime]

\* FieldElement::new: the Err message formats number and prime - 1
FieldElementNew(number, prime) ==
    IF number >= prime
    THEN LET upto == CheckedU(prime - 1)
         IN IF ~IsOk(upto) THEN upto
            ELSE Err([kind |-> "OutOfRange", number |-> number, upto |-> upto.val])
    ELSE Ok(FieldElement(number, prime))

\* the tail of every operation: Self { number, prime: self.prime }, where r
\* is the computation of number (a panic in it ends the operation)
WithPrime(r, self) ==
    IF ~IsOk(r) THEN r ELSE Ok(FieldElement(AsU32(r.val), self.prime))

\* one round of the loop of positive_pow: number *= self.number;
\* number = number.rem_euclid(self.prime).  r is the loop's state: Ok(number),
\* or the panic that ended the loop
PowStep(self, r) ==
    IF ~IsOk(r) THEN r
    ELSE LET m == CheckedU(r.val * self.number)
         IN IF ~IsOk(m) THEN m ELSE RemU32(m.val, self.prime)

\* `for _ in 0..power`: power rounds in sequence (none when power <= 0),
\* evaluated as the first half of the rounds followed by the rest; a panic
\* in a round ends the loop
RECURSIVE PowLoop(_, _, _)
RECURSIVE PowRest(_, _, _)
PowLoop(self, r, power) ==
    IF power <= 0 THEN r
    ELSE IF power = 1 THEN PowStep(self, r)
    ELSE PowRest(self, PowLoop(self, r, power \div 2), power - (power \div 2))

\* the remaining rounds after the state `first`
PowRest(self, first, power) ==
    IF ~IsOk(first) THEN first ELSE PowLoop(self, Ok(first.val), power)

positive_pow(self, power) == WithPrime(PowLoop(self, Ok(1), power), self)

negative_pow(self, power) ==
    LET m == CheckedI(AsI32(self.prime) - 1)
    IN IF ~IsOk(m) THEN m
       ELSE LET equivalent_power == RemEuclidI32(power, m.val)
            IN IF ~IsOk(equivalent_power) THEN equivalent_power
               ELSE positive_pow(self, equivalent_power.val)

\* impl Pow for FieldElement
FieldElement_pow(self, exp) ==
    IF exp > 0 THEN positive_pow(self, exp) ELSE negative_pow(self, exp)

inverse(self) ==
    LET e == CheckedI(AsI32(self.prime) - 2)
    IN IF ~IsOk(e) THEN e ELSE FieldElement_pow(self, e.val)

\* impl Add for FieldElement
FieldElement_add(self, other) ==
    IF self.prime # other.prime THEN Panic("FieldMismatch")
    ELSE LET s == CheckedU(self.number + other.number)
         IN IF ~IsOk(s) THEN s
            ELSE WithPrime(RemU32(s.val, self.prime), self)

\* impl Add<i32> for FieldElement
FieldElement_add_i32(self, other) ==
    LET s == CheckedI(AsI32(self.number) + other)
    IN IF ~IsOk(s) THEN s
       ELSE WithPrime(RemEuclidI32(s.val, AsI32(self.prime)), self)

\* a multiplication without the check of the operands' primes
Mul_NoPrimeCheck(self, other) ==
    LET m == CheckedU(self.number * other.number)
    IN IF ~IsOk(m) THEN m
       ELSE WithPrime(RemU32(m.val, self.prime), self)

\* impl Mul for FieldElement
FieldElement_mul(self, other) ==
    IF self.prime # other.prime THEN Panic("FieldMismatch")
    ELSE LET m == CheckedU(self.number * other.number)
         IN IF ~IsOk(m) THEN m
            ELSE WithPrime(RemU32(m.val, self.prime), self)

\* impl Mul<i32> for FieldElement
FieldElement_mul_i32(self, other) ==
    LET m == CheckedI(AsI32(self.number) * other)
    IN IF ~IsOk(m) THEN m
       ELSE WithPrime(RemEuclidI32(m.val, AsI32(self.prime)), self)

\* a negation that subtracts from the modulus and does not reduce
Neg_NoReduce(self) == Ok(FieldElement(self.prime - self.number, self.prime))

\* impl Neg for FieldElement
FieldElement_neg(self) ==
    LET opposite == CheckedI(AsI32(self.number) * (-1))
    IN IF ~IsOk(opposite) THEN opposite
       ELSE WithPrime(RemEuclidI32(opposite.val, AsI32(self.prime)), self)

\* impl Sub for FieldElement: self + (-other)
FieldElement_sub(self, other) ==
    LET n == FieldElement_neg(other)
    IN IF ~IsOk(n) THEN n ELSE FieldElement_add(self, n.val)

\* impl Div for FieldElement: self * other.inverse()
FieldElement_div(self, other) ==
    LET i == inverse(other)
    IN IF ~IsOk(i) THEN i ELSE FieldElement_mul(self, i.val)

\* impl IsZero for FieldElement
FieldElement_is_zero(self) == self.number = 0

----------------------------------------------------------------------------
(* The caller of the field operations *)

NoElem == [number |-> 0, prime |-> 0]
FeInit == [acc |-> NoElem, nops |-> 0]

\* the moduli the caller constructs elements with: 0 and 1 (no field), the
\* composite 4, the primes 2 and 3, the prime 13 of the documented examples
\* and the least prime whose products overflow the word
Moduli == {0, 1, 2, 3, 4, 13, BigPrime}

\* the numbers the caller passes to new for a modulus
NumbersFor(p) == {n \in (0..SmallMax) \cup ((p - 2)..(p + 1)) : n >= 0 /\ n < UMod}

\* the elements new returns for them
Fresh ==
    UNION {{r.val : r \in {c \in {FieldElementNew(n, p) : n \in NumbersFor(p)} : IsOk(c)}} :
           p \in Moduli}

\* the exponents the caller passes to pow for an element of modulus p
ExponentsFor(p) == {-3, -1, 0, 1, 2, 3, p - 1}

\* the i32 scalars the caller adds and multiplies by
Scalars == {-1, 2, 3, IMax - 1}

Loaded(e) == e # NoElem

\* the moduli of the second operands that are not of acc's field
OtherModuli == {1, 2, 3}

\* the second operand of a binary operation: a newly constructed element of
\* acc's modulus or of another one, or the first operand again
Others == {o \in Fresh : o.prime = fe.acc.prime \/ o.prime \in OtherModuli} \cup {fe.acc}

\* an operation on acc: the result replaces acc when it is Ok
Apply(c, r) ==
    /\ Loaded(fe.acc)
    /\ fe.nops < MaxOps
    /\ call' = c
    /\ res' = r
    /\ fe' = IF IsOk(r) THEN [acc |-> r.val, nops |-> fe.nops + 1]
                        ELSE [fe EXCEPT !.nops = @ + 1]
    /\ UNCHANGED <<build, pt, mul>>

\* the caller constructs its element before it computes with it
New ==
    \E p \in Moduli : \E n \in NumbersFor(p) :
        LET r == FieldElementNew(n, p)
        IN /\ fe.nops = 0
           /\ call' = [op |-> "new", number |-> n, prime |-> p]
           /\ res' = r
           /\ fe' = IF IsOk(r) THEN [acc |-> r.val, nops |-> 0] ELSE fe
           /\ UNCHANGED <<build, pt, mul>>

DoAdd ==
    \E other \in Others :
        Apply([op |-> "add", self |-> fe.acc, other |-> other],
              FieldElement_add(fe.acc, other))

DoSub ==
    \E other \in Others :
        Apply([op |-> "sub", self |-> fe.acc, other |-> other],
              FieldElement_sub(fe.acc, other))

DoMul ==
    \E other \in Others :
        Apply([op |-> "mul", self |-> fe.acc, other |-> other],
              FieldElement_mul(fe.acc, other))

DoDiv ==
    \E other \in Others :
        Apply([op |-> "div", self |-> fe.acc, other |-> other],
              FieldElement_div(fe.acc, other))

DoNeg ==
    Apply([op |-> "neg", self |-> fe.acc], FieldElement_neg(fe.acc))

DoInverse ==
    Apply([op |-> "inverse", self |-> fe.acc], inverse(fe.acc))

DoPow ==
    \E e \in ExponentsFor(fe.acc.prime) :
        Apply([op |-> "pow", self |-> fe.acc, exp |-> e], FieldElement_pow(fe.acc, e))

DoAddI32 ==
    \E k \in Scalars :
        Apply([op |-> "add_i32", self |-> fe.acc, other |-> k],
              FieldElement_add_i32(fe.acc, k))

DoMulI32 ==
    \E k \in Scalars :
        Apply([op |-> "mul_i32", self |-> fe.acc, other |-> k],
              FieldElement_mul_i32(fe.acc, k))



----------------------------------------------------------------------------
(* Coordinate<FieldElement>, src/coordinate.rs *)

Infinity == [kind |-> "Infinity"]
Value(v) == [kind |-> "Value", v |-> v]

\* sequencing of an expression's operands, left to right: a panic in an
\* operand ends the expression
Then2(r1, r2, F(_, _)) ==
    IF ~IsOk(r1) THEN r1
    ELSE IF ~IsOk(r2) THEN r2
    ELSE F(r1.val, r2.val)

\* Coordinate::Value(f(..)) around a field operation
Wrap(r) == IF IsOk(r) THEN Ok(Value(r.val)) ELSE r

is_infinity(self) == self = Infinity

\* Coordinate::is_zero
Coordinate_is_zero(self) ==
    IF self.kind = "Value" THEN FieldElement_is_zero(self.v) ELSE FALSE

\* impl Pow for Coordinate
Coordinate_pow(self, exp) ==
    IF is_infinity(self) THEN Ok(Infinity)
    ELSE Wrap(FieldElement_pow(self.v, exp))

\* impl Add for Coordinate
Coordinate_add(self, other) ==
    IF self.kind = "Value" /\ other.kind = "Value"
    THEN Wrap(FieldElement_add(self.v, other.v))
    ELSE IF self.kind = "Value" THEN Ok(self)
    ELSE IF other.kind = "Value" THEN Ok(other)
    ELSE Ok(Infinity)

\* impl Add<i32> for Coordinate
Coordinate_add_i32(self, other) ==
    IF self.kind = "Value" THEN Wrap(FieldElement_add_i32(self.v, other))
    ELSE Ok(Infinity)

\* impl Sub for Coordinate
Coordinate_sub(self, other) ==
    IF self.kind = "Value" /\ other.kind = "Value"
    THEN Wrap(FieldElement_sub(self.v, other.v))
    ELSE Ok(Infinity)

\* impl Mul for Coordinate
Coordinate_mul(self, other) ==
    IF self.kind = "Value" /\ other.kind = "Value"
    THEN Wrap(FieldElement_mul(self.v, other.v))
    ELSE Ok(Infinity)

\* impl Mul<i32> for Coordinate
Coordinate_mul_i32(self, other) ==
    IF self.kind = "Value" THEN Wrap(FieldElement_mul_i32(self.v, other))
    ELSE Ok(Infinity)

\* impl Div for Coordinate
Coordinate_div(self, other) ==
    IF self.kind = "Value" /\ other.kind = "Value"
    THEN Wrap(FieldElement_div(self.v, other.v))
    ELSE Ok(Infinity)

----------------------------------------------------------------------------
(* Point<FieldElement>, src/point.rs *)

Point(x, y, a, b) == [x |-> x, y |-> y, a |-> a, b |-> b]

\* the point at infinity of a curve
Identity(a, b) == Point(Infinity, Infinity, a, b)

\* Point::new: y.pow(2) != x.pow(3) + x * a + b, skipped when x and y are
\* both Infinity
PointNew(x, y, a, b) ==
    IF is_infinity(x) /\ is_infinity(y) THEN Ok(Point(x, y, a, b))
    ELSE LET lhs == Coordinate_pow(y, 2)
             rhs == Then2(Then2(Coordinate_pow(x, 3), Coordinate_mul(x, a), Coordinate_add),
                          Ok(b), Coordinate_add)
         IN IF ~IsOk(lhs) THEN lhs
            ELSE IF ~IsOk(rhs) THEN rhs
            ELSE IF lhs.val # rhs.val
                 THEN Err([kind |-> "NotOnCurve", x |-> x, y |-> y])
                 ELSE Ok(Point(x, y, a, b))

\* Point::from_finite_field: four FieldElement::new(..)? and Point::new
from_finite_field(x, y, a, b, prime) ==
    LET fx == FieldElementNew(x, prime)
        fy == FieldElementNew(y, prime)
        fa == FieldElementNew(a, prime)
        fb == FieldElementNew(b, prime)
    IN IF ~IsOk(fx) THEN fx
       ELSE IF ~IsOk(fy) THEN fy
       ELSE IF ~IsOk(fa) THEN fa
       ELSE IF ~IsOk(fb) THEN fb
       ELSE PointNew(Value(fx.val), Value(fy.val), Value(fa.val), Value(fb.val))

\* the slope of add_point: the tangent when self == other, else the secant
Slope(self, other) ==
    IF self = other
    THEN Then2(Then2(Then2(Coordinate_pow(self.x, 2), Ok(3), Coordinate_mul_i32),
                     Ok(self.a), Coordinate_add),
               Coordinate_mul_i32(self.y, 2),
               Coordinate_div)
    ELSE Then2(Coordinate_sub(other.y, self.y),
               Coordinate_sub(other.x, self.x),
               Coordinate_div)

\* an add_point without the guard of the vertical tangent
add_point_NoZeroCheck(self, other) ==
    IF self.x = other.x /\ self.y # other.y THEN Ok(Identity(self.a, self.b))
    ELSE LET slope == Slope(self, other)
             x_res == Then2(Then2(Then2(slope, Ok(2), Coordinate_pow),
                                  Ok(self.x), Coordinate_sub),
                            Ok(other.x), Coordinate_sub)
             y_res == Then2(Then2(slope, Then2(Ok(self.x), x_res, Coordinate_sub),
                                  Coordinate_mul),
                            Ok(self.y), Coordinate_sub)
         IN IF ~IsOk(x_res) THEN x_res
            ELSE IF ~IsOk(y_res) THEN y_res
            ELSE Ok(Point(x_res.val, y_res.val, self.a, self.b))

\* Point::add_point
add_point(self, other) ==
    IF self.x = other.x /\ self.y # other.y THEN Ok(Identity(self.a, self.b))
    ELSE IF self = other /\ Coordinate_is_zero(self.y) THEN Ok(Identity(self.a, self.b))
    ELSE LET slope == Slope(self, other)
             x_res == Then2(Then2(Then2(slope, Ok(2), Coordinate_pow),
                                  Ok(self.x), Coordinate_sub),
                            Ok(other.x), Coordinate_sub)
             y_res == Then2(Then2(slope, Then2(Ok(self.x), x_res, Coordinate_sub),
                                  Coordinate_mul),
                            Ok(self.y), Coordinate_sub)
         IN IF ~IsOk(x_res) THEN x_res
            ELSE IF ~IsOk(y_res) THEN y_res
            ELSE Ok(Point(x_res.val, y_res.val, self.a, self.b))

\* impl Add for Point
Point_add(self, other) ==
    IF self.a # other.a \/ self.b # other.b
    THEN Err([kind |-> "CurveMismatch", self |-> self, other |-> other])
    ELSE IF is_infinity(self.x) THEN Ok(other)
    ELSE IF is_infinity(other.x) THEN Ok(self)
    ELSE add_point(self, other)

\* self + other reaches a division: neither identity case of add, neither
\* early return of add_point
Divides(self, other) ==
    /\ self.a = other.a /\ self.b = other.b
    /\ ~is_infinity(self.x) /\ ~is_infinity(other.x)
    /\ ~(self.x = other.x /\ self.y # other.y)
    /\ ~(self = other /\ Coordinate_is_zero(self.y))

\* the divisor of the slope: self.y * 2 for the tangent, other.x - self.x
\* for the secant
Divisor(self, other) ==
    IF self = other THEN Coordinate_mul_i32(self.y, 2)
    ELSE Coordinate_sub(other.x, self.x)

----------------------------------------------------------------------------
(* The caller of the point operations *)

NoPoint == [x |-> 0]

\* the primes whose every coordinate, Infinity included, the caller tries
SmallPrimes == {2, 3}
\* the primes whose every x and y and every finite a and b the caller tries
FinitePrimes == {5}
\* the prime of the documented curve y^2 = x^3 + 7
DocPrime == 223

\* all coordinates over a prime
Coords(p) == {Infinity} \cup {Value(FieldElement(n, p)) : n \in 0..(p - 1)}

\* the finite coordinates of the given numbers
Values(ns, p) == {Value(FieldElement(n, p)) : n \in ns}

\* the arguments <<x, y, a, b>> the caller passes to Point::new: everything
\* over the small primes; every x, y and finite a, b over the finite
\* primes; over DocPrime the curve a = 0, b = 7 with the coordinates of the
\* documented points on it and off it; over BigPrime the curve through
\* (1, 2) and (2, 1), whose secant has the slope BigPrime - 1, and the curve
\* through (1, 2) whose tangent there has the slope BigPrime - 1
PointInputs ==
    UNION {Coords(p) \X Coords(p) \X Coords(p) \X Coords(p) : p \in SmallPrimes}
    \cup UNION {Coords(p) \X Coords(p) \X Values(0..(p - 1), p) \X Values(0..(p - 1), p) :
                p \in FinitePrimes}
    \cup ((Values({47, 36, 15, 17, 200}, DocPrime) \cup {Infinity})
          \X (Values({71, 111, 86, 56, 119}, DocPrime) \cup {Infinity})
          \X Values({0}, DocPrime) \X Values({7}, DocPrime))
    \cup ((Values({1, 2}, BigPrime) \cup {Infinity})
          \X (Values({1, 2}, BigPrime) \cup {Infinity})
          \X Values({BigPrime - 10}, BigPrime) \X Values({13}, BigPrime))
    \cup (Values({1}, BigPrime) \X Values({2}, BigPrime)
          \X Values({BigPrime - 7}, BigPrime) \X Values({10}, BigPrime))

\* y^2 = x^3 + a x + b over the integers modulo the prime of y
OnCurve(x, y, a, b) ==
    LET p == y.v.prime
    IN (y.v.number * y.v.number) % p
         = (x.v.number * x.v.number * x.v.number + a.v.number * x.v.number + b.v.number) % p

AllFinite(t) == \A i \in 1..4 : t[i].kind = "Value"

\* the arguments worth passing as a second operand: those with an Infinity
\* among them and those on their curve
OtherInputs ==
    {t \in PointInputs : AllFinite(t) => OnCurve(t[1], t[2], t[3], t[4])}

\* the second operand of a point addition: a point Point::new accepts, on
\* the first operand's curve, on the curve of its a and no b, or on no curve
\* at all (a and b Infinity), or the first operand again
OtherPoints ==
    {r.val : r \in
        {c \in {PointNew(t[1], t[2], t[3], t[4]) :
                    t \in {u \in OtherInputs :
                              \/ u[3] = pt.acc.a /\ u[4] \in {pt.acc.b, Infinity}
                              \/ u[3] = Infinity /\ u[4] = Infinity}} :
            IsOk(c)}}
    \cup {pt.acc}

\* the caller's first call constructs the point it computes with
PNew ==
    \E t \in PointInputs :
        LET r == PointNew(t[1], t[2], t[3], t[4])
        IN /\ call = NoCall
           /\ call' = [op |-> "point_new", x |-> t[1], y |-> t[2], a |-> t[3], b |-> t[4]]
           /\ res' = r
           /\ pt' = IF IsOk(r) THEN [acc |-> r.val, nops |-> 0] ELSE pt
           /\ UNCHANGED <<build, fe, mul>>

PAdd ==
    /\ pt.acc # NoPoint
    /\ pt.nops < MaxAdds
    /\ \E other \in OtherPoints :
          LET r == Point_add(pt.acc, other)
          IN /\ call' = [op |-> "point_add", self |-> pt.acc, other |-> other]
             /\ res' = r
             /\ pt' = IF IsOk(r) THEN [acc |-> r.val, nops |-> pt.nops + 1]
                                 ELSE [pt EXCEPT !.nops = @ + 1]
             /\ UNCHANGED <<build, fe, mul>>

----------------------------------------------------------------------------
(* Scalar multiplication, src/point.rs: binary_expansion *)

\* Result::unwrap: an Err value panics
Unwrap(r) == IF IsErr(r) THEN Panic("unwrap") ELSE r

\* the frame before a call of binary_expansion
MulInit == [pc |-> "idle", coef |-> 0, current |-> NoPoint, result |-> NoPoint,
            iters |-> 0, accs |-> 0, dbls |-> 0,
            was |-> [coef |-> 0, current |-> NoPoint, result |-> NoPoint]]

\* main's loop `for i in 0..22`
MainCount == 22

\* the coefficients the caller multiplies a point by: 0..MaxCoef, and main's
\* coefficients and the order's successor for points of the documented field
Coefs(point) ==
    (0..MaxCoef) \cup
    (IF point.a.kind = "Value" /\ point.a.v.prime = DocPrime THEN 0..MainCount ELSE {})

\* a test of the low bit with the wrong sense
LowBit_Inverted(coef) == coef % 2 = 0

\* `coef & 1 == 1`
LowBit(coef) == coef % 2 = 1

\* a variant of the shift that decrements the coefficient
Shr_Decrement(coef) == coef - 1

\* `coef >>= 1`
Shr(coef) == coef \div 2

\* the prologue of binary_expansion: coef, current and result =
\* Point::new(Infinity, Infinity, point.a, point.b).unwrap()
Prologue(point, coefficient) ==
    LET r == Unwrap(PointNew(Infinity, Infinity, point.a, point.b))
    IN IF ~IsOk(r) THEN r
       ELSE Ok([MulInit EXCEPT !.pc = "loop", !.coef = coefficient,
                               !.current = point, !.result = r.val])

\* one round of `while coef > 0`: accumulate on a set low bit, double, shift.
\* `was` keeps the locals the round started from
LoopBody(f) ==
    LET acc == IF LowBit(f.coef) THEN Unwrap(Point_add(f.result, f.current))
                                 ELSE Ok(f.result)
    IN IF ~IsOk(acc) THEN acc
       ELSE LET dbl == Unwrap(Point_add(f.current, f.current))
            IN IF ~IsOk(dbl) THEN dbl
               ELSE Ok([f EXCEPT !.result = acc.val,
                                 !.current = dbl.val,
                                 !.coef = Shr(f.coef),
                                 !.iters = @ + 1,
                                 !.accs = IF LowBit(f.coef) THEN @ + 1 ELSE @,
                                 !.dbls = @ + 1,
                                 !.was = [coef |-> f.coef, current |-> f.current,
                                          result |-> f.result]])

\* the whole of binary_expansion, as its loop computes it
RECURSIVE RunLoop(_)
RunLoop(f) ==
    IF f.coef <= 0 THEN Ok(f.result)
    ELSE LET n == LoopBody(f)
         IN IF ~IsOk(n) THEN n ELSE RunLoop(n.val)

binary_expansion(point, coefficient) ==
    LET f == Prologue(point, coefficient)
    IN IF ~IsOk(f) THEN f ELSE RunLoop(f.val)

\* impl Mul<Point<T>> for u32
u32_mul(self, other) == binary_expansion(other, self)

\* the caller multiplies the point it constructed: entry of binary_expansion
MStart ==
    /\ pt.acc # NoPoint
    /\ mul.pc = "idle"
    /\ \E n \in Coefs(pt.acc) :
          \E f \in {Prologue(pt.acc, n)} :
             /\ call' = [op |-> "scalar_mul", coefficient |-> n, point |-> pt.acc]
             /\ res' = IF IsOk(f) THEN NoRes ELSE f
             /\ mul' = IF IsOk(f) THEN f.val ELSE [mul EXCEPT !.pc = "panicked"]
             /\ UNCHANGED <<build, fe, pt>>

\* one round of the loop; a panic in it ends the call
MStep ==
    /\ mul.pc = "loop"
    /\ mul.coef > 0
    /\ \E f \in {LoopBody(mul)} :
          /\ res' = IF IsOk(f) THEN res ELSE f
          /\ mul' = IF IsOk(f) THEN f.val
                    ELSE [mul EXCEPT !.pc = "panicked",
                                     !.was = [coef |-> mul.coef, current |-> mul.current,
                                              result |-> mul.result]]
          /\ UNCHANGED <<build, call, fe, pt>>

\* the loop's exit: return result
MReturn ==
    /\ mul.pc = "loop"
    /\ mul.coef <= 0
    /\ res' = Ok(mul.result)
    /\ mul' = [mul EXCEPT !.pc = "done"]
    /\ pt' = [pt EXCEPT !.acc = mul.result]
    /\ UNCHANGED <<build, call, fe>>

----------------------------------------------------------------------------
(* Specifications *)

PtInit == [acc |-> NoPoint, nops |-> 0]

Init ==
    /\ build \in {"debug", "release"}
    /\ call = NoCall
    /\ res = NoRes
    /\ fe = FeInit
    /\ pt = PtInit
    /\ mul = MulInit

Next ==
    \/ New
    \/ DoAdd
    \/ DoSub
    \/ DoMul
    \/ DoDiv
    \/ DoNeg
    \/ DoInverse
    \/ DoPow
    \/ DoAddI32
    \/ DoMulI32

Spec == Init /\ [][Next]_vars

PointNext ==
    \/ PNew
    \/ PAdd

PointSpec == Init /\ [][PointNext]_vars

MulNext ==
    \/ PNew
    \/ MStart
    \/ MStep
    \/ MReturn

MulSpec == Init /\ [][MulNext]_vars

----------------------------------------------------------------------------
(* Claims about FieldElement *)

BinaryOps == {"add", "sub", "mul", "div"}
FieldOps == BinaryOps \cup {"neg", "inverse", "pow", "add_i32", "mul_i32"}

InRange(e) == e.number >= 0 /\ e.number < e.prime

\* C1: for every pair (number, prime), new returns an Err value (never a
\* panic) when number >= prime, and Ok of exactly that number and prime when
\* number < prime
C1_NewErrOrOk ==
    call.op = "new" =>
        IF call.number >= call.prime
        THEN IsErr(res)
        ELSE res = Ok(FieldElement(call.number, call.prime))

\* C1 holds for every modulus but 0
C1_NewNonzeroPrime ==
    call.op = "new" /\ call.prime # 0 =>
        IF call.number >= call.prime
        THEN IsErr(res) /\ res.err.kind = "OutOfRange"
        ELSE res = Ok(FieldElement(call.number, call.prime))

\* C2: every element reachable from the elements new returns through any
\* sequence of +, -, *, /, neg, pow, inverse, + i32 and * i32 has
\* 0 <= number < prime and carries the prime of its operands
C2_RangeInvariant ==
    /\ Loaded(fe.acc) => InRange(fe.acc)
    /\ call.op \in FieldOps /\ IsOk(res) =>
          /\ InRange(res.val)
          /\ res.val.prime = call.self.prime
          /\ call.op \in BinaryOps => res.val.prime = call.other.prime

\* C2's case: a chain of two operations that ends in a negative power
C2_Witness ==
    /\ fe.nops >= 2
    /\ call.op = "pow" /\ call.exp < 0
    /\ IsOk(res) /\ res.val.number > 1

\* the residue v mod p, 0 <= residue < p
Residue(v, p) == v % p

\* C3: for every prime p and x, y of F_p, x + y, x - y, x * y and -x have
\* the numbers (x + y) mod p, (x - y) mod p, (x * y) mod p and (-x) mod p
C3_RingOps ==
    call.op \in {"add", "sub", "mul", "neg"} /\ IsPrime(call.self.prime) =>
        LET p == call.self.prime
            x == call.self.number
        IN  /\ call.op = "neg" => res = Ok(FieldElement(Residue(-x, p), p))
            /\ call.op # "neg" /\ call.other.prime = p =>
                  LET y == call.other.number
                  IN  /\ call.op = "add" => res = Ok(FieldElement(Residue(x + y, p), p))
                      /\ call.op = "sub" => res = Ok(FieldElement(Residue(x - y, p), p))
                      /\ call.op = "mul" => res = Ok(FieldElement(Residue(x * y, p), p))

\* C3 holds for the primes below the one whose products overflow
C3_RingOpsSmall ==
    call.op \in {"add", "sub", "mul", "neg"} /\ call.self.prime < BigPrime => C3_RingOps

RECURSIVE ModExp(_, _, _)
ModExp(x, e, p) ==
    IF e = 0 THEN 1
    ELSE LET h == ModExp(x, e \div 2, p)
         IN IF e % 2 = 0 THEN (h * h) % p ELSE (((h * h) % p) * x) % p

\* C5: for every prime p, x of F_p and e >= 0, x.pow(e) is x^e mod p, 1 for
\* e = 0, and 1 for e = p - 1 and x nonzero
C5_PowIsModExp ==
    call.op = "pow" /\ IsPrime(call.self.prime) /\ call.exp >= 0 =>
        LET p == call.self.prime
            x == call.self.number
        IN  /\ res = Ok(FieldElement(ModExp(x, call.exp, p), p))
            /\ call.exp = 0 => res = Ok(FieldElement(1, p))
            /\ call.exp = p - 1 /\ x # 0 => res = Ok(FieldElement(1, p))

\* C5 holds for the primes below the one whose products overflow
C5_PowIsModExpSmall ==
    call.op = "pow" /\ call.self.prime < BigPrime => C5_PowIsModExp

\* C6: for every prime p, nonzero x of F_p and k > 0,
\* x.pow(-k) * x.pow(k) == 1
C6_NegativePowInverts ==
    call.op = "pow" /\ IsPrime(call.self.prime) /\ call.exp < 0
                    /\ call.self.number # 0 =>
        /\ IsOk(res)
        /\ LET xk == FieldElement_pow(call.self, -call.exp)
           IN  /\ IsOk(xk)
               /\ FieldElement_mul(res.val, xk.val) = Ok(FieldElement(1, call.self.prime))

\* C6 holds for the primes below the one whose products overflow
C6_NegativePowInvertsSmall ==
    call.op = "pow" /\ call.self.prime < BigPrime => C6_NegativePowInverts

\* C7: for every prime p and nonzero b of F_p, b * b.inverse() == 1 and
\* (a / b) * b == a for every a of F_p
C7_InverseAndDiv ==
    /\ call.op = "inverse" /\ IsPrime(call.self.prime) /\ call.self.number # 0 =>
          /\ IsOk(res)
          /\ FieldElement_mul(call.self, res.val) = Ok(FieldElement(1, call.self.prime))
    /\ call.op = "div" /\ IsPrime(call.self.prime)
                       /\ call.other.prime = call.self.prime
                       /\ call.other.number # 0 =>
          /\ IsOk(res)
          /\ FieldElement_mul(res.val, call.other) = Ok(call.self)

\* C7 holds for the primes below the one whose products overflow
C7_InverseAndDivSmall ==
    call.op \in {"inverse", "div"} /\ call.self.prime < BigPrime => C7_InverseAndDiv


----------------------------------------------------------------------------
(* Claims about Point *)

\* C8: Point::new returns Ok when x and y are both Infinity; for finite x,
\* y, a, b it returns Ok if and only if y^2 == x^3 + a*x + b in the field;
\* in every other case it returns an Err value and no point is created
C8_NewOnCurveOnly ==
    call.op = "point_new" =>
        LET t == <<call.x, call.y, call.a, call.b>>
        IN  IF is_infinity(call.x) /\ is_infinity(call.y)
            THEN res = Ok(Point(call.x, call.y, call.a, call.b))
            ELSE IF AllFinite(t)
            THEN IF OnCurve(call.x, call.y, call.a, call.b)
                 THEN res = Ok(Point(call.x, call.y, call.a, call.b))
                 ELSE IsErr(res) /\ pt.acc = NoPoint
            ELSE IsErr(res) /\ pt.acc = NoPoint

\* C8 holds of the arguments that are all finite, and of x and y both
\* Infinity
C8_NewFinite ==
    call.op = "point_new"
        /\ (AllFinite(<<call.x, call.y, call.a, call.b>>)
            \/ (is_infinity(call.x) /\ is_infinity(call.y)))
    => C8_NewOnCurveOnly

\* C9: P + Q returns Err if and only if P.a != Q.a or P.b != Q.b, and for
\* points with equal (a, b) addition always returns Ok
C9_ErrIffCurveMismatch ==
    call.op = "point_add" =>
        IF call.self.a # call.other.a \/ call.self.b # call.other.b
        THEN IsErr(res)
        ELSE IsOk(res)

\* C9 without its last part: Err if and only if the curves differ
C9_ErrIff ==
    call.op = "point_add" =>
        (IsErr(res) <=> (call.self.a # call.other.a \/ call.self.b # call.other.b))

\* C10: for every point P Point::new accepts and the point at infinity O
\* of the same curve, P + O == Ok(P) and O + P == Ok(P)
C10_Identity ==
    call.op = "point_add" /\ call.self.a = call.other.a /\ call.self.b = call.other.b =>
        /\ call.other = Identity(call.self.a, call.self.b) => res = Ok(call.self)
        /\ call.self = Identity(call.self.a, call.self.b) => res = Ok(call.other)

\* C10 holds of the points whose x and y are both finite or both Infinity
C10_IdentityWhole ==
    call.op = "point_add"
        /\ (is_infinity(call.self.x) <=> is_infinity(call.self.y))
        /\ (is_infinity(call.other.x) <=> is_infinity(call.other.y))
    => C10_Identity

\* a point whose x and y are both finite
FinitePoint(p) == p.x.kind = "Value" /\ p.y.kind = "Value"

\* C11: for two finite valid points P, Q of the same curve with P.x == Q.x,
\* P + Q is the point at infinity of that curve whenever P.y != Q.y or
\* P == Q with P.y zero
C11_VerticalIsInfinity ==
    call.op = "point_add" /\ FinitePoint(call.self) /\ FinitePoint(call.other)
        /\ call.self.a = call.other.a /\ call.self.b = call.other.b
        /\ call.self.x = call.other.x
        /\ (\/ call.self.y # call.other.y
            \/ call.self = call.other /\ call.self.y.v.number = 0)
    => res = Ok(Identity(call.self.a, call.self.b))

\* C11's case: a point of an odd field with y zero is added to itself
C11_Witness ==
    /\ call.op = "point_add" /\ FinitePoint(call.self)
    /\ call.self = call.other
    /\ call.self.y.v.number = 0 /\ call.self.y.v.prime > 2
    /\ call.self.a.kind = "Value" /\ call.self.b.kind = "Value"
    /\ res = Ok(Identity(call.self.a, call.self.b))

\* the call of binary_expansion is over: it returned or it panicked
MulOver == call.op = "scalar_mul" /\ mul.pc \in {"done", "panicked"}

\* P added to `result` n times in sequence with the point addition law
\* (the loop `for _ in 0..self { result = (result + other).unwrap(); }`)
RECURSIVE AddTimes(_, _, _)
AddTimes(result, other, n) ==
    IF n <= 0 THEN Ok(result)
    ELSE LET r == Unwrap(Point_add(result, other))
         IN IF ~IsOk(r) THEN r ELSE AddTimes(r.val, other, n - 1)

\* the documented point of F_223 with the given numbers
DocPoint(x, y) ==
    Point(Value(FieldElement(x, DocPrime)), Value(FieldElement(y, DocPrime)),
          Value(FieldElement(0, DocPrime)), Value(FieldElement(7, DocPrime)))

\* C12: for every valid point P over a prime field and every n, n * P by
\* double-and-add equals P added to the point at infinity n times; 0 * P is
\* the point at infinity and 2 * (47,71) == (36,111) over F_223
C12_MulIsRepeatedAdd ==
    MulOver =>
        LET P == call.point
            n == call.coefficient
        IN  /\ IsOk(res)
            /\ res = AddTimes(Identity(P.a, P.b), P, n)
            /\ n = 0 => res = Ok(Identity(P.a, P.b))
            /\ n = 2 /\ P = DocPoint(47, 71) => res = Ok(DocPoint(36, 111))

\* C12 on the documented field
C12_MulIsRepeatedAddDoc ==
    MulOver /\ call.point.a = Value(FieldElement(0, DocPrime)) => C12_MulIsRepeatedAdd

\* C13: on y^2 = x^3 + 7 over F_223, P = (47,71) has order 21: 21 * P and
\* 0 * P are the point at infinity and n * P is finite for 0 < n < 21
C13_Order21 ==
    MulOver /\ call.point = DocPoint(47, 71) =>
        LET n == call.coefficient
            O == Identity(call.point.a, call.point.b)
        IN  /\ IsOk(res)
            /\ n \in {0, 21} => res = Ok(O)
            /\ 0 < n /\ n < 21 => FinitePoint(res.val)

\* C13's case: 21 * (47,71) has been computed
C13_Witness ==
    /\ MulOver /\ call.point = DocPoint(47, 71) /\ call.coefficient = 21
    /\ mul.pc = "done" /\ mul.iters = 5
    /\ res = Ok(Identity(call.point.a, call.point.b))

\* the division of self + other, if it makes one, has a finite nonzero divisor
WellFormed(self, other) ==
    Divides(self, other) =>
        LET d == Divisor(self, other)
        IN IsOk(d) /\ d.val.kind = "Value" /\ d.val.v.number # 0

\* C14: for every point P Point::new accepts over a prime field and every
\* n, n * P never fails, and every division inside its point additions has
\* a finite nonzero divisor
C14_MulNeverFails ==
    call.op = "scalar_mul" =>
        /\ ~IsPanic(res) /\ ~IsErr(res)
        /\ mul.was.current # NoPoint =>
              /\ LowBit(mul.was.coef) => WellFormed(mul.was.result, mul.was.current)
              /\ WellFormed(mul.was.current, mul.was.current)

\* C14 on fields of more than two elements whose products fit the word
C14_MulNeverFailsSmall ==
    call.op = "scalar_mul" /\ call.point.a.kind = "Value"
        /\ call.point.a.v.prime > 2 /\ call.point.a.v.prime < BigPrime
    => C14_MulNeverFails

\* the points Point::new accepts on the curve (a, b), among the caller's
PointsOn(a, b) ==
    {r.val : r \in {c \in {PointNew(t[1], t[2], t[3], t[4]) :
                                t \in {u \in OtherInputs : u[3] = a /\ u[4] = b}} :
                        IsOk(c)}}

\* r + R for the result r of an addition
AddTo(r, R) == IF IsOk(r) THEN Point_add(r.val, R) ELSE r

\* P + r for the result r of an addition
AddOnto(P, r) == IF IsOk(r) THEN Point_add(P, r.val) ELSE r

\* C15: for all valid points P, Q, R of one curve over a prime field,
\* P + Q == Q + P and (P + Q) + R == P + (Q + R)
C15_Abelian ==
    call.op = "point_add" /\ call.self.a = call.other.a /\ call.self.b = call.other.b =>
        LET P == call.self
            Q == call.other
        IN  /\ IsOk(res)
            /\ res = Point_add(Q, P)
            /\ \A R \in PointsOn(P.a, P.b) :
                  /\ IsOk(AddTo(res, R))
                  /\ AddTo(res, R) = AddOnto(P, Point_add(Q, R))

\* the point (x3, y3) of the chord-and-tangent formulas over the integers
\* modulo p, for the slope s
ChordPoint(P, Q, s) ==
    LET p == P.x.v.prime
        x1 == P.x.v.number
        y1 == P.y.v.number
        x2 == Q.x.v.number
        x3 == (s * s - x1 - x2) % p
        y3 == (s * (x1 - x3) - y1) % p
    IN Point(Value(FieldElement(x3, p)), Value(FieldElement(y3, p)), P.a, P.b)

\* s is the quotient num / den of the field of p elements
IsQuotient(s, num, den, p) == den % p # 0 /\ (s * den) % p = num % p

\* s is the slope of the claim: (3*x1^2 + a) / (2*y1) if P == Q, else
\* (y2 - y1) / (x2 - x1)
IsSlope(s, P, Q) ==
    LET p == P.x.v.prime
    IN IF P = Q
       THEN IsQuotient(s, 3 * P.x.v.number * P.x.v.number + P.a.v.number,
                       2 * P.y.v.number, p)
       ELSE IsQuotient(s, Q.y.v.number - P.y.v.number,
                       Q.x.v.number - P.x.v.number, p)

\* C16: for two finite valid points P, Q of one curve outside the
\* vertical-pair and zero-y doubling cases, P + Q is the finite point
\* (x3, y3) on the same (a, b) with x3 = s^2 - x1 - x2 and
\* y3 = s*(x1 - x3) - y1 for the slope s of the tangent or the secant
C16_ChordAndTangent ==
    call.op = "point_add" /\ FinitePoint(call.self) /\ FinitePoint(call.other)
        /\ call.self.a = call.other.a /\ call.self.b = call.other.b
        /\ call.self.a.kind = "Value" /\ call.self.b.kind = "Value"
        /\ ~(call.self.x = call.other.x /\ call.self.y # call.other.y)
        /\ ~(call.self = call.other /\ call.self.y.v.number = 0)
    => \E s \in 0..(call.self.x.v.prime - 1) :
          /\ IsSlope(s, call.self, call.other)
          /\ res = Ok(ChordPoint(call.self, call.other, s))

\* C16 on fields of more than two elements whose products fit the word
C16_ChordAndTangentSmall ==
    call.op = "point_add" /\ FinitePoint(call.self)
        /\ call.self.x.v.prime > 2 /\ call.self.x.v.prime < BigPrime
    => C16_ChordAndTangent

\* the number of binary digits of n (0 for n = 0)
RECURSIVE BitLength(_)
BitLength(n) == IF n = 0 THEN 0 ELSE 1 + BitLength((n - (n % 2)) \div 2)

\* the number of set binary digits of n
RECURSIVE SetBits(_)
SetBits(n) == IF n = 0 THEN 0 ELSE (n % 2) + SetBits((n - (n % 2)) \div 2)

\* C17: for every coefficient n the loop of binary_expansion terminates:
\* after k rounds coef is n shifted right k times, so the loop never runs
\* more than bitlength(n) rounds and is left with coef = 0 after exactly
\* bitlength(n) rounds (none for n = 0); a round makes one doubling, and
\* one accumulation per set bit of n, at most 2 * bitlength(n) point
\* additions
C17_LoopTerminates ==
    call.op = "scalar_mul" =>
        LET n == call.coefficient
        IN  /\ mul.iters <= BitLength(n)
            /\ mul.pc = "loop" => mul.coef = n \div Pow2(mul.iters)
            /\ mul.dbls = mul.iters
            /\ mul.accs <= mul.iters
            /\ mul.accs + mul.dbls <= 2 * BitLength(n)
            /\ mul.pc = "done" =>
                  /\ mul.coef = 0
                  /\ mul.iters = BitLength(n)
                  /\ mul.accs = SetBits(n)

\* C17's case: the multiple by the largest coefficient has returned after a
\* round per digit
C17_Witness ==
    /\ call.op = "scalar_mul" /\ mul.pc = "done"
    /\ call.coefficient = MaxCoef
    /\ mul.iters = BitLength(MaxCoef) /\ mul.iters >= 3
    /\ FinitePoint(call.point)

\* the primes of the fields a point's coordinates and curve come from
PrimesOf(P) == {c.v.prime : c \in {d \in {P.x, P.y, P.a, P.b} : d.kind = "Value"}}

\* Point::new would accept the point: it is the point at infinity, or
\* Point::new returns Ok for it and its finite coordinates satisfy
\* y^2 == x^3 + a*x + b
Acceptable(P) ==
    \/ P = Identity(P.a, P.b)
    \/ /\ IsOk(PointNew(P.x, P.y, P.a, P.b))
       /\ AllFinite(<<P.x, P.y, P.a, P.b>>) => OnCurve(P.x, P.y, P.a, P.b)

\* C18: over F_p with p odd, every point obtained from points Point::new
\* accepts by point additions and scalar multiplications is a point
\* Point::new would accept, and carries the a and b of its operands
C18_Closure ==
    /\ call.op = "point_add" /\ IsOk(res)
           /\ 2 \notin (PrimesOf(call.self) \cup PrimesOf(call.other)) =>
          /\ Acceptable(res.val)
          /\ res.val.a = call.self.a /\ res.val.b = call.self.b
          /\ res.val.a = call.other.a /\ res.val.b = call.other.b
    /\ call.op = "scalar_mul" /\ 2 \notin PrimesOf(call.point) =>
          /\ mul.pc = "done" =>
                /\ Acceptable(res.val)
                /\ res.val.a = call.point.a /\ res.val.b = call.point.b
          /\ mul.current # NoPoint => Acceptable(mul.current) /\ Acceptable(mul.result)

\* C18 on fields whose products fit the word
C18_ClosureSmall ==
    /\ call.op = "point_add" /\ BigPrime \notin PrimesOf(call.self) => C18_Closure
    /\ call.op = "scalar_mul" /\ BigPrime \notin PrimesOf(call.point) => C18_Closure

\* C19: every point Point::new accepts has x Infinity if and only if y is
\* Infinity, for any a and b, so that x.is_infinity() in point addition
\* identifies exactly the identity point
C19_NoHalfInfinite ==
    /\ call.op = "point_new" /\ IsOk(res) =>
          (is_infinity(res.val.x) <=> is_infinity(res.val.y))
    /\ call.op = "point_add" =>
          /\ is_infinity(call.self.x) => call.self = Identity(call.self.a, call.self.b)
          /\ is_infinity(call.other.x) => call.other = Identity(call.other.a, call.other.b)

\* C19 holds of the points whose y is Infinity: their x is Infinity too
C19_InfiniteY ==
    call.op = "point_new" /\ IsOk(res) /\ is_infinity(res.val.y) => is_infinity(res.val.x)

----------------------------------------------------------------------------
(* Claims about the machine integers *)

\* C20: for every prime p that fits the word and all in-range operands, +,
\* * and pow return the exact result modulo p: no intermediate value leaves
\* the unsigned range, so nothing panics and nothing wraps
C20_NoOverflow ==
    call.op \in {"add", "mul", "pow"} /\ IsPrime(call.self.prime) =>
        LET p == call.self.prime
            x == call.self.number
        IN  /\ call.op = "add" /\ call.other.prime = p =>
                  res = Ok(FieldElement((x + call.other.number) % p, p))
            /\ call.op = "mul" /\ call.other.prime = p =>
                  res = Ok(FieldElement((x * call.other.number) % p, p))
            /\ call.op = "pow" /\ (call.exp > 0 \/ x # 0) =>
                  res = Ok(FieldElement(
                            ModExp(x, IF call.exp > 0 THEN call.exp
                                      ELSE call.exp % (p - 1), p), p))

\* C20 holds for the primes below the one whose products overflow
C20_NoOverflowSmall ==
    call.op \in {"add", "mul", "pow"} /\ call.self.prime < BigPrime => C20_NoOverflow

====
